---- MODULE Spec2Model ----
(***************************************************************************)
(* Model of opt/ansible/log-analyzer.py: AnsibleLogAnalyzer (parse_log,    *)
(* _process_entry, generate_report) and main.                              *)
(*                                                                         *)
(* A line of the log file is a record [text, tree]: `text` is the raw line *)
(* and `tree`, present only when the stripped text is a JSON document, is  *)
(* the value json.loads returns for it.  JSON values are tagged records:   *)
(*   [t |-> "dict", d |-> function from keys to values]                    *)
(*   [t |-> "list", items |-> set of the strings the list holds]           *)
(*   [t |-> "str" | "num" | "bool" | "null", v |-> literal text]           *)
(* json.loads is modelled within the interpreter's resource limits         *)
(* (recursion depth, integer digit limit).                                 *)
(***************************************************************************)
EXTENDS Integers, Sequences, FiniteSets

VARIABLES pc, stats, consumed, file_open, result, caught, output, success,
          exit_status

vars == <<pc, stats, consumed, file_open, result, caught, output, success,
          exit_status>>

\* Largest number of lines the log file holds.
MaxLines == 3

(***************************************************************************)
(* JSON values                                                             *)
(***************************************************************************)
JStr(s) == [t |-> "str", v |-> s]
JNum(s) == [t |-> "num", v |-> s]
JBool(s) == [t |-> "bool", v |-> s]
JNull == [t |-> "null", v |-> "null"]
JList(xs) == [t |-> "list", items |-> xs]
JDict(f) == [t |-> "dict", d |-> f]

EmptyDict == JDict(<<>>)

\* Python truth value of a decoded JSON value.
Truthy(val) ==
    CASE val.t = "bool" -> val.v = "true"
      [] val.t = "str"  -> val.v # ""
      [] val.t = "num"  -> val.v # "0"
      [] val.t = "null" -> FALSE
      [] val.t = "list" -> val.items # {}
      [] val.t = "dict" -> DOMAIN val.d # {}

\* `key in container` raises TypeError when container is not iterable.
InRaises(container) == container.t \in {"num", "bool", "null"}

\* `key in container` for a str key: dict key test, list element test,
\* substring test (the model's strings either equal the key or do not
\* contain it).
In(key, container) ==
    CASE container.t = "dict" -> key \in DOMAIN container.d
      [] container.t = "list" -> key \in container.items
      [] container.t = "str"  -> container.v = key
      [] OTHER -> FALSE

\* container[key] with a str key raises TypeError on a str or a list.
SubscriptRaises(container) == container.t # "dict"

\* set.add(val) raises TypeError on an unhashable value.
Hashable(val) == val.t \notin {"list", "dict"}

\* dict.get(key, default)
Get(dict, key, default) ==
    IF key \in DOMAIN dict.d THEN dict.d[key] ELSE default

(***************************************************************************)
(* The log lines the model draws from                                      *)
(***************************************************************************)
Text(s) == [text |-> s]
Json(s, val) == [text |-> s, tree |-> val]

Host1 == JStr("10.0.0.1")
Host2 == JStr("10.0.0.2")

NonJsonLines == { Text("not json"), Text("   ") }

OkLines == {
    Json("{event:runner_on_ok,event_data:{remote_addr:10.0.0.1,changed:true}}",
         JDict([event |-> JStr("runner_on_ok"),
                event_data |-> JDict([remote_addr |-> Host1,
                                      changed |-> JBool("true")])])),
    Json("{event:runner_on_ok,event_data:{remote_addr:10.0.0.2}}",
         JDict([event |-> JStr("runner_on_ok"),
                event_data |-> JDict([remote_addr |-> Host2])])),
    Json("{event:runner_on_ok,event_data:{changed:false}}",
         JDict([event |-> JStr("runner_on_ok"),
                event_data |-> JDict([changed |-> JBool("false")])])) }

FailedLines == {
    Json("{event:runner_on_failed,event_data:{remote_addr:10.0.0.2,task:install pkg,msg:timeout}}",
         JDict([event |-> JStr("runner_on_failed"),
                event_data |-> JDict([remote_addr |-> Host2,
                                      task |-> JStr("install pkg"),
                                      msg |-> JStr("timeout")])])),
    Json("{event:runner_on_failed,event_data:{}}",
         JDict([event |-> JStr("runner_on_failed"),
                event_data |-> EmptyDict])),
    Json("{event:runner_on_failed,event_data:{remote_addr:10.0.0.1,task:''}}",
         JDict([event |-> JStr("runner_on_failed"),
                event_data |-> JDict([remote_addr |-> Host1,
                                      task |-> JStr("")])])) }

OtherLines == {
    Json("{event:runner_on_skipped,event_data:{remote_addr:10.0.0.1}}",
         JDict([event |-> JStr("runner_on_skipped"),
                event_data |-> JDict([remote_addr |-> Host1])])),
    Json("{event:playbook_on_start,event_data:{remote_addr:10.0.0.2}}",
         JDict([event |-> JStr("playbook_on_start"),
                event_data |-> JDict([remote_addr |-> Host2])])),
    Json("{event_data:{remote_addr:10.0.0.1}}",
         JDict([event_data |-> JDict([remote_addr |-> Host1])])) }

NoEventDataLines == {
    Json("{event:runner_on_ok}", JDict([event |-> JStr("runner_on_ok")])),
    Json("{event:runner_on_failed}",
         JDict([event |-> JStr("runner_on_failed")])),
    Json("{event:runner_on_skipped}",
         JDict([event |-> JStr("runner_on_skipped")])),
    Json("{}", EmptyDict) }

\* JSON documents outside the record shape: event_data that is not an
\* object, a remote_addr that is an array, documents that are not objects.
IllTypedLines == {
    Json("{event:runner_on_failed,event_data:'x'}",
         JDict([event |-> JStr("runner_on_failed"),
                event_data |-> JStr("x")])),
    Json("{event:runner_on_ok,event_data:[]}",
         JDict([event |-> JStr("runner_on_ok"),
                event_data |-> JList({})])),
    Json("{event:runner_on_skipped,event_data:5}",
         JDict([event |-> JStr("runner_on_skipped"),
                event_data |-> JNum("5")])),
    Json("{event:runner_on_ok,event_data:{remote_addr:['a']}}",
         JDict([event |-> JStr("runner_on_ok"),
                event_data |-> JDict([remote_addr |-> JList({"a"})])])),
    Json("42", JNum("42")),
    Json("'x'", JStr("x")),
    Json("['event_data']", JList({"event_data"})) }

Lines == NonJsonLines \cup OkLines \cup FailedLines \cup OtherLines
            \cup NoEventDataLines \cup IllTypedLines

(***************************************************************************)
(* AnsibleLogAnalyzer                                                      *)
(***************************************************************************)
InitStats ==
    [total_tasks |-> 0, changed_tasks |-> 0, failed_tasks |-> 0,
     skipped_tasks |-> 0, ok_tasks |-> 0, execution_time |-> 0,
     hosts |-> {}, failed_details |-> <<>>]

\* Outcome of a piece of code: the state it leaves and the exception it
\* raised ("none" when it returned).
Return(st) == [stats |-> st, raised |-> "none"]
Raise(st, exc) == [stats |-> st, raised |-> exc]

\* json.loads(line.strip())
JsonLoads(line) ==
    IF "tree" \in DOMAIN line
    THEN [raised |-> "none", value |-> line.tree]
    ELSE [raised |-> "JSONDecodeError", value |-> JNull]

\* if 'remote_addr' in event_data: hosts.add(event_data['remote_addr'])
TrackHosts(st, event_data) ==
    IF InRaises(event_data) THEN Raise(st, "TypeError")
    ELSE IF ~In("remote_addr", event_data) THEN Return(st)
    ELSE IF SubscriptRaises(event_data) THEN Raise(st, "TypeError")
    ELSE IF ~Hashable(event_data.d.remote_addr) THEN Raise(st, "TypeError")
    ELSE Return([st EXCEPT !.hosts = @ \cup {event_data.d.remote_addr}])

\* the runner_on_ok branch
RunnerOnOk(st, event_data) ==
    LET counted == [st EXCEPT !.total_tasks = @ + 1, !.ok_tasks = @ + 1]
    IN  IF event_data.t # "dict" THEN Raise(counted, "AttributeError")
        ELSE IF Truthy(Get(event_data, "changed", JBool("false")))
             THEN Return([counted EXCEPT !.changed_tasks = @ + 1])
             ELSE Return(counted)

RunnerOnFailedNoTotal(st, event_data) ==
    LET counted == [st EXCEPT !.failed_tasks = @ + 1]
    IN  IF event_data.t # "dict" THEN Raise(counted, "AttributeError")
        ELSE Return([counted EXCEPT !.failed_details = Append(@,
                 [task  |-> Get(event_data, "task", JStr("Unknown")),
                  host  |-> Get(event_data, "remote_addr", JStr("Unknown")),
                  error |-> Get(event_data, "msg", JStr("No error message"))])])

\* the runner_on_failed branch
RunnerOnFailed(st, event_data) ==
    LET counted == [st EXCEPT !.total_tasks = @ + 1, !.failed_tasks = @ + 1]
    IN  IF event_data.t # "dict" THEN Raise(counted, "AttributeError")
        ELSE Return([counted EXCEPT !.failed_details = Append(@,
                 [task  |-> Get(event_data, "task", JStr("Unknown")),
                  host  |-> Get(event_data, "remote_addr", JStr("Unknown")),
                  error |-> Get(event_data, "msg", JStr("No error message"))])])

RunnerOnSkippedCountsTotal(st) ==
    Return([st EXCEPT !.skipped_tasks = @ + 1, !.total_tasks = @ + 1])

\* the runner_on_skipped branch
RunnerOnSkipped(st) == Return([st EXCEPT !.skipped_tasks = @ + 1])

\* the if / elif chain on entry.get('event')
ClassifyEvent(st, entry, event_data) ==
    LET event == Get(entry, "event", JNull)
    IN  IF event = JStr("runner_on_ok") THEN RunnerOnOk(st, event_data)
        ELSE IF event = JStr("runner_on_failed")
             THEN RunnerOnFailed(st, event_data)
        ELSE IF event = JStr("runner_on_skipped") THEN RunnerOnSkipped(st)
        ELSE Return(st)

NoEventDataStillCounts(st, entry) ==
    IF entry.t = "dict" THEN ClassifyEvent(st, entry, EmptyDict)
    ELSE Return(st)

\* if 'event_data' not in entry: return
NoEventData(st, entry) == Return(st)

\* _process_entry(entry)
ProcessEntry(st, entry) ==
    IF InRaises(entry) THEN Raise(st, "TypeError")
    ELSE IF ~In("event_data", entry) THEN NoEventData(st, entry)
    ELSE IF SubscriptRaises(entry) THEN Raise(st, "TypeError")
    ELSE LET event_data == entry.d.event_data
             tracked == TrackHosts(st, event_data)
         IN  IF tracked.raised # "none" THEN tracked
             ELSE ClassifyEvent(tracked.stats, entry, event_data)

OnJSONDecodeErrorAbort(st) == Raise(st, "JSONDecodeError")

\* except json.JSONDecodeError: continue
OnJSONDecodeError(st) == Return(st)

\* body of the `for line in f` loop
ParseLine(st, line) ==
    LET decoded == JsonLoads(line)
    IN  IF decoded.raised # "none" THEN OnJSONDecodeError(st)
        ELSE ProcessEntry(st, decoded.value)

RECURSIVE ParseLines(_, _)
\* the whole `for line in f` loop over the lines of a file: stops at the
\* first exception that leaves the loop
ParseLines(st, lines) ==
    IF lines = <<>> THEN Return(st)
    ELSE LET step == ParseLine(st, Head(lines))
         IN  IF step.raised # "none" THEN step
             ELSE ParseLines(step.stats, Tail(lines))

\* the sections generate_report prints, in order
ReportSections(st) ==
    <<"header", "statistics">>
        \o (IF st.failed_tasks > 0 THEN <<"failed_details">> ELSE <<>>)
        \o (IF st.total_tasks > 0 THEN <<"success_rate">> ELSE <<>>)

GenerateReportSuccessNeedsTasks(st) ==
    IF st.failed_tasks = 0 /\ st.total_tasks > 0 THEN "True" ELSE "False"

\* return self.stats['failed_tasks'] == 0
GenerateReportSuccess(st) ==
    IF st.failed_tasks = 0 THEN "True" ELSE "False"

MainExitCodeZeroOnParseFailure(parsed, ok) ==
    IF parsed = "True" THEN (IF ok = "True" THEN 0 ELSE 1) ELSE 0

\* main: sys.exit(0 if success else 1) after a report, sys.exit(1) otherwise
MainExitCode(parsed, ok) ==
    IF parsed = "True" THEN (IF ok = "True" THEN 0 ELSE 1) ELSE 1

(***************************************************************************)
(* The run: main() on a freshly constructed analyzer                       *)
(***************************************************************************)
Init ==
    /\ pc = "main"
    /\ stats = InitStats
    /\ consumed = <<>>
    /\ file_open = FALSE
    /\ result = "None"
    /\ caught = "none"
    /\ output = <<>>
    /\ success = "None"
    /\ exit_status = -1

\* parse_log: os.path.exists(log_file) is false
ParseLogNotFound ==
    /\ pc = "main"
    /\ output' = Append(output, "error_not_found")
    /\ result' = "False"
    /\ pc' = "returned"
    /\ UNCHANGED <<stats, consumed, file_open, caught, success, exit_status>>

\* parse_log: the file exists and open() raises
ParseLogOpenFail ==
    /\ pc = "main"
    /\ caught' = "OSError"
    /\ output' = Append(output, "error_reading")
    /\ result' = "False"
    /\ pc' = "returned"
    /\ UNCHANGED <<stats, consumed, file_open, success, exit_status>>

\* parse_log: the file exists and open() succeeds
ParseLogOpen ==
    /\ pc = "main"
    /\ file_open' = TRUE
    /\ pc' = "reading"
    /\ UNCHANGED <<stats, consumed, result, caught, output, success,
                   exit_status>>

\* parse_log: one iteration of the loop over the next line of the file
ReadLine ==
    /\ pc = "reading"
    /\ Len(consumed) < MaxLines
    /\ \E line \in Lines :
          LET step == ParseLine(stats, line)
          IN  /\ consumed' = Append(consumed, line)
              /\ stats' = step.stats
              /\ IF step.raised = "none"
                 THEN UNCHANGED <<pc, file_open, result, caught, output>>
                 ELSE /\ file_open' = FALSE
                      /\ caught' = step.raised
                      /\ output' = Append(output, "error_reading")
                      /\ result' = "False"
                      /\ pc' = "returned"
    /\ UNCHANGED <<success, exit_status>>

\* parse_log: reading the next line raises (I/O fault, undecodable bytes)
ReadFail ==
    /\ pc = "reading"
    /\ file_open' = FALSE
    /\ caught' = "OSError"
    /\ output' = Append(output, "error_reading")
    /\ result' = "False"
    /\ pc' = "returned"
    /\ UNCHANGED <<stats, consumed, success, exit_status>>

\* parse_log: end of file, return True
ReadEOF ==
    /\ pc = "reading"
    /\ file_open' = FALSE
    /\ result' = "True"
    /\ pc' = "returned"
    /\ UNCHANGED <<stats, consumed, caught, output, success, exit_status>>

\* main: parse_log returned True, generate_report()
GenerateReport ==
    /\ pc = "returned"
    /\ result = "True"
    /\ output' = output \o ReportSections(stats)
    /\ success' = GenerateReportSuccess(stats)
    /\ pc' = "reported"
    /\ UNCHANGED <<stats, consumed, file_open, result, caught, exit_status>>

\* main: sys.exit(0 if success else 1)
MainExitAfterReport ==
    /\ pc = "reported"
    /\ exit_status' = MainExitCode(result, success)
    /\ pc' = "exited"
    /\ UNCHANGED <<stats, consumed, file_open, result, caught, output,
                   success>>

\* main: parse_log returned False, sys.exit(1)
MainExitParseFailed ==
    /\ pc = "returned"
    /\ result = "False"
    /\ exit_status' = MainExitCode(result, success)
    /\ pc' = "exited"
    /\ UNCHANGED <<stats, consumed, file_open, result, caught, output,
                   success>>

Next ==
    \/ ParseLogNotFound
    \/ ParseLogOpenFail
    \/ ParseLogOpen
    \/ ReadLine
    \/ ReadFail
    \/ ReadEOF
    \/ GenerateReport
    \/ MainExitAfterReport
    \/ MainExitParseFailed

Spec == Init /\ [][Next]_vars

TypeOK ==
    /\ pc \in {"main", "reading", "returned", "reported", "exited"}
    /\ result \in {"None", "True", "False"}
    /\ success \in {"None", "True", "False"}
    /\ caught \in {"none", "OSError", "TypeError", "AttributeError",
                   "JSONDecodeError"}
    /\ exit_status \in {-1, 0, 1}
    /\ file_open \in BOOLEAN
    /\ Len(consumed) <= MaxLines

(***************************************************************************)
(* Vocabulary of the properties                                            *)
(***************************************************************************)
Decodes(line) == "tree" \in DOMAIN line

IsObject(line) == Decodes(line) /\ line.tree.t = "dict"

CarriesEventData(line) == IsObject(line) /\ "event_data" \in DOMAIN line.tree.d

HasEvent(line, name) ==
    IsObject(line) /\ "event" \in DOMAIN line.tree.d
                   /\ line.tree.d.event = JStr(name)

\* event_data of the documented shape: a mapping whose remote_addr, task
\* and msg are strings and whose changed is a boolean, each optional.
WellFormedEventData(ed) ==
    /\ ed.t = "dict"
    /\ \A k \in DOMAIN ed.d :
          /\ k \in {"remote_addr", "task", "msg"} => ed.d[k].t = "str"
          /\ k = "changed" => ed.d[k].t = "bool"

\* a line of a well-formed input file: non-JSON content, or a JSON object
\* whose event is a string and whose event_data has the documented shape.
WellFormedLine(line) ==
    \/ ~Decodes(line)
    \/ /\ IsObject(line)
       /\ "event" \in DOMAIN line.tree.d => line.tree.d.event.t = "str"
       /\ "event_data" \in DOMAIN line.tree.d
             => WellFormedEventData(line.tree.d.event_data)

\* a valid event of the given kind: a well-formed record of that kind that
\* carries its event_data.
ValidEvent(line, name) ==
    WellFormedLine(line) /\ CarriesEventData(line) /\ HasEvent(line, name)

ValidOk(line) == ValidEvent(line, "runner_on_ok")
ValidFailed(line) == ValidEvent(line, "runner_on_failed")

Count(lines, P(_)) == Cardinality({i \in 1..Len(lines) : P(lines[i])})

ParseLogDone == pc \in {"returned", "reported", "exited"}

FileMissing == Len(output) > 0 /\ output[1] = "error_not_found"

\* the file was missing, could not be opened, or reading it failed
IOFault == FileMissing \/ caught = "OSError"

LastLine == consumed[Len(consumed)]

(***************************************************************************)
(* C1                                                                      *)
(***************************************************************************)
\* C1: for a well-formed input file read without I/O fault, in which N lines
\* are valid runner_on_ok events and M lines are valid runner_on_failed
\* events, parse_log returns True with total_tasks = N + M, ok_tasks = N and
\* failed_tasks = M, whatever the other lines are and wherever they stand.
C1_OkFailedCounts ==
    (/\ ParseLogDone
     /\ ~IOFault
     /\ \A i \in 1..Len(consumed) : WellFormedLine(consumed[i]))
    => /\ result = "True"
       /\ stats.ok_tasks = Count(consumed, ValidOk)
       /\ stats.failed_tasks = Count(consumed, ValidFailed)
       /\ stats.total_tasks
             = Count(consumed, ValidOk) + Count(consumed, ValidFailed)

C1_Witness ==
    /\ pc = "returned" /\ result = "True"
    /\ \A i \in 1..Len(consumed) : WellFormedLine(consumed[i])
    /\ Count(consumed, ValidOk) >= 1
    /\ Count(consumed, ValidFailed) >= 1
    /\ Len(consumed) > Count(consumed, ValidOk) + Count(consumed, ValidFailed)
    /\ stats.total_tasks = 2

(***************************************************************************)
(* C2                                                                      *)
(***************************************************************************)
\* C2: the exit status is 0 exactly when parse_log succeeded, the report was
\* generated and failed_tasks is 0, and 1 in every other case; the success
\* signal of generate_report is true iff failed_tasks is 0, whatever
\* total_tasks is.
C2_ExitStatus ==
    /\ pc \in {"reported", "exited"} /\ result = "True"
          => (success = "True" <=> stats.failed_tasks = 0)
    /\ pc = "exited"
          => /\ exit_status \in {0, 1}
             /\ exit_status = 0
                   <=> /\ result = "True"
                       /\ success # "None"
                       /\ stats.failed_tasks = 0
    /\ pc # "exited" => exit_status = -1

C2_Witness ==
    /\ pc = "exited" /\ exit_status = 0
    /\ stats.total_tasks = 0 /\ Len(consumed) > 0

C4_NoReportOnIOFault ==
    IOFault
    => /\ output \in {<<"error_not_found">>, <<"error_reading">>}
       /\ result = "False"
       /\ success = "None"
       /\ pc \in {"returned", "exited"}
       /\ pc = "exited" => exit_status = 1

C4_Witness ==
    /\ pc = "exited" /\ caught = "OSError"
    /\ stats.total_tasks > 0
    /\ exit_status = 1

(***************************************************************************)
(* C5                                                                      *)
(***************************************************************************)
TotalIsOkPlusFailed ==
    stats.total_tasks = stats.ok_tasks + stats.failed_tasks

\* processing a runner_on_skipped record changes no counter but
\* skipped_tasks, which it increments when the record carries an event_data
\* mapping
SkippedOnlySkips ==
    (consumed' # consumed /\ HasEvent(LastLine', "runner_on_skipped"))
    => /\ stats'.total_tasks = stats.total_tasks
       /\ stats'.ok_tasks = stats.ok_tasks
       /\ stats'.failed_tasks = stats.failed_tasks
       /\ stats'.changed_tasks = stats.changed_tasks
       /\ stats'.failed_details = stats.failed_details
       /\ stats'.skipped_tasks
             = IF CarriesEventData(LastLine')
                  /\ LastLine'.tree.d.event_data.t = "dict"
               THEN stats.skipped_tasks + 1 ELSE stats.skipped_tasks

\* C5: total_tasks = ok_tasks + failed_tasks in the initial state and after
\* every record, and a runner_on_skipped record increments skipped_tasks
\* only, never total_tasks.
C5_TotalIsOkPlusFailed == []TotalIsOkPlusFailed /\ [][SkippedOnlySkips]_vars

C5_Witness ==
    /\ Len(consumed) = 3
    /\ HasEvent(LastLine, "runner_on_skipped")
    /\ stats.skipped_tasks = 1
    /\ stats.ok_tasks = 1 /\ stats.failed_tasks = 1 /\ stats.total_tasks = 2

(***************************************************************************)
(* C6                                                                      *)
(***************************************************************************)
\* C6: failed_tasks = length(failed_details) in the initial state and after
\* every record processed, for any sequence of records.
C6_FailedMatchesDetails == stats.failed_tasks = Len(stats.failed_details)

(***************************************************************************)
(* C7                                                                      *)
(***************************************************************************)
HasRemoteAddr(line) ==
    /\ CarriesEventData(line)
    /\ line.tree.d.event_data.t = "dict"
    /\ "remote_addr" \in DOMAIN line.tree.d.event_data.d

\* C7: hosts is exactly the set of remote_addr values found in the records
\* read so far that carry event_data, whatever their event kind.
C7_HostsExact ==
    stats.hosts = { consumed[i].tree.d.event_data.d.remote_addr :
                       i \in {j \in 1..Len(consumed) :
                                 HasRemoteAddr(consumed[j])} }

(***************************************************************************)
(* C8                                                                      *)
(***************************************************************************)
FailedWithEventData(line) ==
    CarriesEventData(line) /\ HasEvent(line, "runner_on_failed")

\* a sub-field of event_data, or the default when it is missing
Field(ed, key, default) ==
    IF ed.t = "dict" /\ key \in DOMAIN ed.d THEN ed.d[key] ELSE default

DetailOf(line) ==
    LET ed == line.tree.d.event_data
    IN  [task  |-> Field(ed, "task", JStr("Unknown")),
         host  |-> Field(ed, "remote_addr", JStr("Unknown")),
         error |-> Field(ed, "msg", JStr("No error message"))]

\* C8: failed_details is, in encounter order, one entry per runner_on_failed
\* record carrying event_data read so far, each with its task, host and
\* error or their defaults.
C8_FailedDetailsExact ==
    LET failures == SelectSeq(consumed, FailedWithEventData)
    IN  /\ Len(stats.failed_details) = Len(failures)
        /\ \A i \in 1..Len(failures) :
              stats.failed_details[i] = DetailOf(failures[i])

(***************************************************************************)
(* C9                                                                      *)
(***************************************************************************)
\* C9: processing a line that decodes as JSON raises no error and does not
\* abort the run: parse_log fails only on an I/O fault.
C9_AggregationTotal == result = "False" => IOFault

(***************************************************************************)
(* C10                                                                     *)
(***************************************************************************)
\* C10: processing a record that lacks an event_data field leaves the whole
\* aggregate state unchanged, whatever its event.
C10_NoEventDataNoChange ==
    [][(consumed' # consumed /\ IsObject(LastLine')
            /\ ~CarriesEventData(LastLine'))
       => stats' = stats]_vars

C10_Witness ==
    /\ pc = "reading"
    /\ Len(consumed) = 2
    /\ ValidOk(consumed[1])
    /\ HasEvent(consumed[2], "runner_on_failed")
    /\ ~CarriesEventData(consumed[2])
    /\ stats.total_tasks = 1 /\ stats.failed_tasks = 0

====
